---------------------------- MODULE Spec2Model ----------------------------
(***************************************************************************)
(* Model of src/src/convert-drm-to-text.ts: the converter of .drm drum-map *)
(* documents into REAPER note-name text files.                             *)
(*                                                                         *)
(* A JavaScript string is a sequence of one-character strings, so that     *)
(* toLowerCase, includes, the regular expressions and the template         *)
(* literals are computed character by character.  undefined, null and     *)
(* false are the one-element sequences Undefined, Null and False, which no *)
(* string equals.                                                          *)
(***************************************************************************)
EXTENDS Integers, Sequences, FiniteSets, TLC

VARIABLES
    argv3,          \* process.argv[3]: a string, or Undefined when not given
    doc,            \* the parsed .drm document handed to convertDRMFileToText
    pc,             \* "ready", then "returned" or "threw"
    notesAndNames,  \* convertDRMFileToText's notesAndNames
    groups,         \* groupByPreferred's groups after groups.sort
    orderItems,     \* convertDRMFileToText's orderItems
    text,           \* the string convertDRMFileToText returns
    files,          \* the input directory tree read by scanForDrumMapFiles
    stack,          \* the active scanForDrumMapFiles calls, innermost last
    status,         \* "init", "running", "done" or "exit1"
    fatal,          \* the path whose error left scanForDrumMapFiles
    visited,        \* paths of the .drm files handed to convertDRMFileToText
    errors,         \* paths of the .drm files whose error was logged
    written,        \* paths and contents of the files writeFile wrote
    mkdirs          \* paths of the output directories mkdir created

convVars == <<doc, pc, notesAndNames, groups, orderItems, text>>
scanVars == <<files, stack, status, fatal, visited, errors, written, mkdirs>>
vars == <<argv3, doc, pc, notesAndNames, groups, orderItems, text,
          files, stack, status, fatal, visited, errors, written, mkdirs>>

(***************************************************************************)
(* Bounds of the model.                                                    *)
(***************************************************************************)
MaxItems == 3
MaxOrder == 3
MaxFiles == 3

(***************************************************************************)
(* JavaScript values and string primitives.                                *)
(***************************************************************************)
Undefined == <<"undefined">>
Null == <<"null">>
False == <<"false">>

Digits == {"0", "1", "2", "3", "4", "5", "6", "7", "8", "9"}
UpperCase == <<"A","B","C","D","E","F","G","H","I","J","K","L","M","N","O","P","Q","R","S","T","U","V","W","X","Y","Z">>
LowerCase == <<"a","b","c","d","e","f","g","h","i","j","k","l","m","n","o","p","q","r","s","t","u","v","w","x","y","z">>
\* the line terminators the regular expression's . does not match
\* (U+2028 and U+2029 are outside the model's alphabet)
LineTerminators == {"\n", "\r"}

SetMin(S) == CHOOSE x \in S : \A y \in S : x <= y
SetMax(S) == CHOOSE x \in S : \A y \in S : x >= y

SeqUpTo(n, S) == UNION {[1..k -> S] : k \in 0..n}

RECURSIVE Concat(_)
Concat(ss) == IF ss = <<>> THEN <<>> ELSE Head(ss) \o Concat(Tail(ss))

\* `${v}`: a template literal's conversion of a value to a string
ToStr(v) == IF v = Undefined THEN <<"u","n","d","e","f","i","n","e","d">>
            ELSE IF v = Null THEN <<"n","u","l","l">>
            ELSE v

\* a value's truthiness, for the values process.argv[3] ?? false takes
Truthy(v) == v \notin {False, Undefined, Null, <<>>}

LowerOf == [c \in {UpperCase[i] : i \in 1..Len(UpperCase)} |->
               LowerCase[CHOOSE i \in 1..Len(UpperCase) : UpperCase[i] = c]]

toLowerChar(c) == IF c \in DOMAIN LowerOf THEN LowerOf[c] ELSE c

toLowerCase(s) == [i \in 1..Len(s) |-> toLowerChar(s[i])]

includes(s, t) ==
    \E i \in 0..(Len(s) - Len(t)) : SubSeq(s, i + 1, i + Len(t)) = t

IsDigit(c) == c \in Digits

\* s.replaceAll(/(\d+)/g, '')
replaceAllDigits(s) == SelectSeq(s, LAMBDA c : ~IsDigit(c))

\* s.match(/(\d+)/)?.[0]: the leftmost, longest run of digits
matchDigits(s) ==
    LET starts == {i \in 1..Len(s) : IsDigit(s[i])} IN
    IF starts = {} THEN Undefined
    ELSE LET i == SetMin(starts)
             j == SetMax({k \in i..Len(s) : \A m \in i..k : IsDigit(s[m])})
         IN  SubSeq(s, i, j)

\* the ends of the matches of /\[(.*)]/ that start at i
BracketEnds(name, i) ==
    {j \in (i + 1)..Len(name) :
        /\ name[j] = "]"
        /\ \A k \in (i + 1)..(j - 1) : name[k] \notin LineTerminators}

\* name.match(/\[(.*)]/)?.[0]: leftmost start, and .* takes all it can
matchBracket(name) ==
    LET starts == {i \in 1..Len(name) :
                      name[i] = "[" /\ BracketEnds(name, i) # {}}
    IN  IF starts = {} THEN Null
        ELSE LET i == SetMin(starts)
             IN  SubSeq(name, i, SetMax(BracketEnds(name, i)))

\* lines.join('\n')
RECURSIVE join(_)
join(lines) ==
    IF lines = <<>> THEN <<>>
    ELSE IF Len(lines) = 1 THEN lines[1]
    ELSE lines[1] \o <<"\n">> \o join(Tail(lines))

(***************************************************************************)
(* PREFERRED_ORDERS                                                        *)
(***************************************************************************)
Reverse(s) == [i \in 1..Len(s) |-> s[Len(s) + 1 - i]]

AuthoredOrders == <<
    <<"h","a","t">>,
    <<"k","i","c","k">>,
    <<"k","i","c","k"," ","2">>,
    <<"k","i","c","k"," ","1">>,
    <<"s","n","a","r","e">>,
    <<"c","r","a","s","h"," ","3">>,
    <<"c","r","a","s","h"," ","2">>,
    <<"c","r","a","s","h"," ","1">>,
    <<"c","r","a","s","h">>,
    <<"r","i","d","e">>,
    <<"r","i","d","e"," ","3">>,
    <<"r","i","d","e"," ","2">>,
    <<"r","i","d","e"," ","1">>,
    <<"s","p","l","a","s","h"," ","2">>,
    <<"s","p","l","a","s","h"," ","1">>,
    <<"s","p","l","a","s","h">>,
    <<"c","y","m","b","a","l"," ","4">>,
    <<"c","y","m","b","a","l"," ","3">>,
    <<"c","y","m","b","a","l"," ","2">>,
    <<"c","y","m","b","a","l"," ","1">>,
    <<"c","y","m","b","a","l">>,
    <<"r","a","c","k","t","o","m"," ","4">>,
    <<"r","a","c","k","t","o","m"," ","3">>,
    <<"r","a","c","k","t","o","m"," ","2">>,
    <<"r","a","c","k","t","o","m"," ","1">>,
    <<"r","a","c","k","t","o","m">>,
    <<"f","l","o","o","r","t","o","m"," ","4">>,
    <<"f","l","o","o","r","t","o","m"," ","3">>,
    <<"f","l","o","o","r","t","o","m"," ","2">>,
    <<"f","l","o","o","r","t","o","m"," ","1">>,
    <<"f","l","o","o","r","t","o","m">> >>

\* PREFERRED_ORDERS without the .reverse()
PreferredOrdersUnreversed == AuthoredOrders

PREFERRED_ORDERS == Reverse(AuthoredOrders)

(***************************************************************************)
(* groupByPreferred                                                        *)
(***************************************************************************)
\* found without the comparison of the two numbers
foundByNameOnly(instrument, curGroupKey, curGroupKeyLower) ==
    includes(curGroupKeyLower, toLowerCase(replaceAllDigits(instrument)))

\* the callback of PREFERRED_ORDERS.findIndex
found(instrument, curGroupKey, curGroupKeyLower) ==
    LET instWithoutNum == toLowerCase(replaceAllDigits(instrument))
        hasInstName == includes(curGroupKeyLower, instWithoutNum)
        instOnlyNum == matchDigits(instrument)
        curGroupKeyInstNumber == matchDigits(curGroupKey)
    IN  /\ hasInstName
        /\ \/ Len(instWithoutNum) = Len(instrument)
           \/ curGroupKeyInstNumber = instOnlyNum

\* Array.prototype.findIndex: the 0-based index of the first match, or -1
RECURSIVE findIndexFrom(_, _, _)
findIndexFrom(i, curGroupKey, curGroupKeyLower) ==
    IF i > Len(PREFERRED_ORDERS) THEN -1
    ELSE IF found(PREFERRED_ORDERS[i], curGroupKey, curGroupKeyLower)
         THEN i - 1
    ELSE findIndexFrom(i + 1, curGroupKey, curGroupKeyLower)

preferredOrder(curGroupKey) ==
    findIndexFrom(1, curGroupKey, toLowerCase(curGroupKey))

\* the callback of notesAndNames.reduce
groupsReducer(allGroups, entry) ==
    LET curGroupKey == matchBracket(entry.name) IN
    IF curGroupKey = Null THEN allGroups
    ELSE LET at == {i \in 1..Len(allGroups) : allGroups[i].key = curGroupKey}
         IN  IF at = {}
             THEN Append(allGroups, [key |-> curGroupKey,
                                     notes |-> <<entry.note>>,
                                     order |-> preferredOrder(curGroupKey)])
             ELSE [allGroups EXCEPT ![SetMin(at)].notes = Append(@, entry.note)]

RECURSIVE reduceGroups(_, _)
reduceGroups(allGroups, entries) ==
    IF entries = <<>> THEN allGroups
    ELSE reduceGroups(groupsReducer(allGroups, Head(entries)), Tail(entries))

\* compareGroups with the unranked groups sent to the back
compareGroupsUnrankedLast(a, b) ==
    IF a.order = -1 THEN 1
    ELSE IF b.order = -1 THEN -1
    ELSE IF a.order > b.order THEN 1
    ELSE IF a.order < b.order THEN -1
    ELSE 0

\* the comparator handed to groups.sort
compareGroups(a, b) ==
    IF a.order = -1 THEN -1
    ELSE IF b.order = -1 THEN 1
    ELSE IF a.order > b.order THEN 1
    ELSE IF a.order < b.order THEN -1
    ELSE 0

(***************************************************************************)
(* Array.prototype.sort as Node's V8 runs it on an array shorter than 64:  *)
(* one run is counted (and reversed when strictly descending), and the     *)
(* rest is inserted by binary insertion.  Indices are 0-based as in V8;    *)
(* element i of the work array is arr[i + 1].                              *)
(***************************************************************************)
RECURSIVE RunLength(_, _, _)
RunLength(arr, idx, isDescending) ==
    IF idx >= Len(arr) THEN idx
    ELSE LET order == compareGroups(arr[idx + 1], arr[idx]) IN
         IF isDescending /\ order >= 0 THEN idx
         ELSE IF ~isDescending /\ order < 0 THEN idx
         ELSE RunLength(arr, idx + 1, isDescending)

ReverseRange(arr, n) ==
    [i \in 1..Len(arr) |-> IF i <= n THEN arr[n + 1 - i] ELSE arr[i]]

RECURSIVE BinarySearch(_, _, _, _)
BinarySearch(arr, pivot, left, right) ==
    IF left >= right THEN left
    ELSE LET mid == left + ((right - left) \div 2) IN
         IF compareGroups(pivot, arr[mid + 1]) < 0
         THEN BinarySearch(arr, pivot, left, mid)
         ELSE BinarySearch(arr, pivot, mid + 1, right)

InsertAt(arr, start, left) ==
    [i \in 1..Len(arr) |->
        IF i = left + 1 THEN arr[start + 1]
        ELSE IF i > left + 1 /\ i <= start + 1 THEN arr[i - 1]
        ELSE arr[i]]

RECURSIVE BinaryInsertionSort(_, _)
BinaryInsertionSort(arr, start) ==
    IF start >= Len(arr) THEN arr
    ELSE BinaryInsertionSort(
             InsertAt(arr, start, BinarySearch(arr, arr[start + 1], 0, start)),
             start + 1)

sort(arr) ==
    IF Len(arr) < 2 THEN arr
    ELSE LET isDescending == compareGroups(arr[2], arr[1]) < 0
             runLength == RunLength(arr, 2, isDescending)
             run == IF isDescending THEN ReverseRange(arr, runLength) ELSE arr
         IN  BinaryInsertionSort(run, runLength)


\* groups.reduce: every group's notes, each as the line `NO ${note}`
groupLines(sorted) ==
    Concat([g \in 1..Len(sorted) |->
               [n \in 1..Len(sorted[g].notes) |-> <<"N","O"," ">> \o sorted[g].notes[n]]])

\* groupByPreferred's result (lines), with its local groups as sorted
groupByPreferred(entries) ==
    LET sorted == sort(reduceGroups(<<>>, entries))
    IN  [groups |-> sorted, lines |-> groupLines(sorted)]

(***************************************************************************)
(* convertDRMFileToText                                                    *)
(***************************************************************************)
\* a Map item's value, '' when the element or its value attribute is absent
OrEmpty(v) == IF v = Null \/ v = Undefined THEN <<>> ELSE v

\* entryReducer with only the name tested
entryReducerNameOnly(filteredNotesAndNames, entry) ==
    LET name == OrEmpty(entry.name)
        note == OrEmpty(entry.note)
    IN  IF Len(name) = 0 THEN filteredNotesAndNames
        ELSE Append(filteredNotesAndNames, [note |-> note, name |-> name])

\* the callback of [...mapList].reduce
entryReducer(filteredNotesAndNames, entry) ==
    LET name == OrEmpty(entry.name)
        note == OrEmpty(entry.note)
    IN  IF Len(name) = 0 \/ Len(note) = 0 THEN filteredNotesAndNames
        ELSE Append(filteredNotesAndNames, [note |-> note, name |-> name])

RECURSIVE extractNotesAndNames(_, _)
extractNotesAndNames(acc, mapList) ==
    IF mapList = <<>> THEN acc
    ELSE extractNotesAndNames(entryReducer(acc, Head(mapList)), Tail(mapList))

\* orderReducer without the test for a known note
orderReducerUnfiltered(filteredOrderItems, orderValue, entries) ==
    Append(filteredOrderItems, <<"N","O"," ">> \o ToStr(orderValue))

\* orderReducer that leaves out a value it has pushed before
orderReducerOnce(filteredOrderItems, orderValue, entries) ==
    IF ~\E i \in 1..Len(entries) : entries[i].note = orderValue
    THEN filteredOrderItems
    ELSE IF \E k \in 1..Len(filteredOrderItems) :
                filteredOrderItems[k] = <<"N","O"," ">> \o ToStr(orderValue)
    THEN filteredOrderItems
    ELSE Append(filteredOrderItems, <<"N","O"," ">> \o ToStr(orderValue))

\* the callback of the Order items' reduce
orderReducer(filteredOrderItems, orderValue, entries) ==
    IF ~\E i \in 1..Len(entries) : entries[i].note = orderValue
    THEN filteredOrderItems
    ELSE Append(filteredOrderItems, <<"N","O"," ">> \o ToStr(orderValue))

RECURSIVE filterOrder(_, _, _)
filterOrder(acc, orderList, entries) ==
    IF orderList = <<>> THEN acc
    ELSE filterOrder(orderReducer(acc, Head(orderList), entries),
                     Tail(orderList), entries)

\* process.argv[3] ?? false
\* assert.equal(actual, expected) passes
assertEqual(actual, expected) == actual = expected

usePreferredGrouping(a3) == IF a3 = Undefined \/ a3 = Null THEN False ELSE a3

formatText(headerName, entries, lines) ==
    <<"#"," ">> \o ToStr(headerName) \o <<"\n">>
    \o join([i \in 1..Len(entries) |->
                entries[i].note \o <<" ">> \o entries[i].name]) \o <<"\n">>
    \o <<"#"," ","G","r","o","u","p","e","d"," ","o","r","d","e","r">> \o <<"\n">>
    \o join(lines) \o <<"\n">>

\* the outcome of convertDRMFileToText on document d
convertDRMFileToText(d, a3) ==
    IF ~d.parses
    THEN [threw |-> "ParseError", notesAndNames |-> <<>>, groups |-> <<>>,
          orderItems |-> <<>>, text |-> Undefined]
    ELSE
    LET entries == extractNotesAndNames(<<>>, d.mapList)
        preferred == Truthy(usePreferredGrouping(a3))
        grouped == groupByPreferred(entries)
        sorted == IF preferred THEN grouped.groups ELSE <<>>
        lines == IF preferred THEN grouped.lines
                 ELSE filterOrder(<<>>, d.orderList, entries)
    IN  IF ~preferred /\ ~assertEqual(Len(lines), Len(entries))
        THEN [threw |-> "AssertionError", notesAndNames |-> entries,
              groups |-> sorted, orderItems |-> lines, text |-> Undefined]
        ELSE [threw |-> "none", notesAndNames |-> entries,
              groups |-> sorted, orderItems |-> lines,
              text |-> formatText(d.header, entries, lines)]

(***************************************************************************)
(* The documents the model converts.                                       *)
(***************************************************************************)
Item(note, name) == [note |-> note, name |-> name]

Document(header, mapList, orderList) ==
    [parses |-> TRUE, header |-> header, mapList |-> mapList,
     orderList |-> orderList]

\* a file that is not well-formed XML: JSDOM throws on it
Malformed ==
    [parses |-> FALSE, header |-> Undefined, mapList |-> <<>>,
     orderList |-> <<>>]

\* the entries of the worked example, with an Order list that covers them
WorkedExample ==
    Document(<<"K","i","t">>,
             <<Item(<<"1">>, <<"K","i","c","k"," ","[","K","i","c","k","]">>), Item(<<"2">>, <<"H","a","t"," ","[","H","a","t","]">>),
               Item(<<"3">>, <<"U","n","k","n","o","w","n"," ","[","F","o","o","]">>)>>,
             <<<<"3">>, <<"2">>, <<"1">>>>)

\* Map items of the documents converted with preferred grouping
GroupedItems == {
    Item(<<"1">>, <<"K","i","c","k"," ","[","K","i","c","k","]">>),
    Item(<<"2">>, <<"H","a","t"," ","[","H","a","t","]">>),
    Item(<<"3">>, <<"U","n","k","n","o","w","n"," ","[","F","o","o","]">>),
    Item(<<"4">>, <<"T","o","m"," ","[","B","a","r","]">>),
    Item(<<"5">>, <<"A"," ","[","K","i","c","k","]"," ","B"," ","[","S","n","a","r","e","]">>),
    Item(<<"6">>, <<"C","o","w","b","e","l","l">>),
    Item(<<"7">>, <<"H","i"," ","[","C","r","a","s","h"," ","2","]">>),
    Item(<<"1">>, <<"L","o","w"," ","[","k","i","c","k","]">>),
    Item(<<"9">>, Null),
    Item(<<>>, <<"O","p","e","n"," ","[","H","a","t","]">>) }

\* Map items and Order values of the documents converted in explicit mode
ExplicitItems == {
    Item(<<"1">>, <<"K","i","c","k"," ","[","K","i","c","k","]">>),
    Item(<<"2">>, <<"H","a","t"," ","[","H","a","t","]">>),
    Item(<<"2">>, <<>>),
    Item(Null, <<"S","n","a","r","e">>) }

OrderValues == {<<"1">>, <<"2">>, <<"9">>, Null}

\* group tags around every entry of the preference table
Capitalised(s) == [i \in 1..Len(s) |->
    IF i = 1 /\ \E k \in 1..Len(LowerCase) : LowerCase[k] = s[i]
    THEN UpperCase[CHOOSE k \in 1..Len(LowerCase) : LowerCase[k] = s[i]]
    ELSE s[i]]

TagNames ==
    {<<"[">> \o AuthoredOrders[i] \o <<"]">> : i \in 1..Len(AuthoredOrders)}
    \cup {<<"X"," ","[">> \o Capitalised(AuthoredOrders[i]) \o <<"]">> :
             i \in 1..Len(AuthoredOrders)}
    \cup { <<"[","R","i","d","e"," ","0","2","]">>, <<"[","R","i","d","e"," ","1","2","]">>, <<"[","2"," ","R","i","d","e"," ","1","]">>, <<"[","K","i","c","k","2","]">>, <<"[","K","i","c","k"," ","3","]">>,
           <<"[","C","R","A","S","H"," ","1","]">>, <<"C","r","a","s","h"," ","1">>, <<"]"," ","C","r","a","s","h"," ","[">>, <<"[","H","i","-","H","a","t"," ","1","]">>,
           <<"[","C","r","a","s","h","]"," ","2">>, <<"[","S","n","a","r","e"," ","1","]">>, <<"[","R","i","d","e","]">>, <<"[","]">> }

InitScanIdle ==
    /\ files = <<>>
    /\ stack = <<>>
    /\ status = "init"
    /\ fatal = <<>>
    /\ visited = <<>>
    /\ errors = <<>>
    /\ written = <<>>
    /\ mkdirs = {}

InitConvIdle ==
    /\ pc = "ready"
    /\ notesAndNames = <<>>
    /\ groups = <<>>
    /\ orderItems = <<>>
    /\ text = Undefined

Init ==
    /\ InitConvIdle
    /\ InitScanIdle
    /\ \/ /\ argv3 = <<"t","r","u","e">>
          /\ doc \in {Document(<<"K","i","t">>, m, <<>>) :
                         m \in SeqUpTo(MaxItems, GroupedItems)}
       \/ /\ argv3 \in {<<"t","r","u","e">>, <<"f","a","l","s","e">>}
          /\ doc \in {Document(Undefined, <<Item(<<"3","6">>, n)>>, <<<<"3","6">>>>) :
                         n \in TagNames}
       \/ /\ argv3 = Undefined
          /\ doc \in {Document(<<"K","i","t">>, m, o) :
                         m \in SeqUpTo(MaxItems, ExplicitItems),
                         o \in SeqUpTo(MaxOrder, OrderValues)}
       \/ /\ argv3 \in {Undefined, <<>>, <<"t","r","u","e">>}
          /\ doc \in {Malformed, WorkedExample, Document(Null, <<>>, <<>>)}

\* one call of convertDRMFileToText
Convert ==
    /\ pc = "ready"
    /\ LET r == convertDRMFileToText(doc, argv3) IN
       /\ pc' = IF r.threw = "none" THEN "returned" ELSE "threw"
       /\ notesAndNames' = r.notesAndNames
       /\ groups' = r.groups
       /\ orderItems' = r.orderItems
       /\ text' = r.text
    /\ UNCHANGED <<argv3, doc>>
    /\ UNCHANGED scanVars

Next == Convert

Spec == Init /\ [][Next]_vars

(***************************************************************************)
(* scanForDrumMapFiles and the top-level run                               *)
(***************************************************************************)
\* an entry of a directory listing: a file, a directory, or a name on which
\* stat throws
FileEntry(ext, content, writable) ==
    [type |-> "file", ext |-> ext, content |-> content, writable |-> writable,
     readable |-> TRUE, listing |-> <<>>]

DirEntry(readable, listing) ==
    [type |-> "dir", ext |-> <<>>, content |-> Malformed, writable |-> TRUE,
     readable |-> readable, listing |-> listing]

BrokenEntry ==
    [type |-> "broken", ext |-> <<>>, content |-> Malformed,
     writable |-> TRUE, readable |-> TRUE, listing |-> <<>>]

\* an Order list that leaves out the note of the one Map item
Inconsistent == Document(<<"K","i","t">>, <<Item(<<"1">>, <<"K","i","c","k"," ","[","K","i","c","k","]">>)>>, <<>>)

LeafEntries == {
    FileEntry(<<".","d","r","m">>, WorkedExample, TRUE),
    FileEntry(<<".","d","r","m">>, WorkedExample, FALSE),
    FileEntry(<<".","d","r","m">>, Inconsistent, TRUE),
    FileEntry(<<".","d","r","m">>, Malformed, TRUE),
    FileEntry(<<".","t","x","t">>, Malformed, TRUE),
    BrokenEntry }

SubListings == {
    <<FileEntry(<<".","d","r","m">>, Inconsistent, TRUE),
      FileEntry(<<".","d","r","m">>, WorkedExample, TRUE)>>,
    <<BrokenEntry, FileEntry(<<".","d","r","m">>, WorkedExample, TRUE)>> }

EntryPool ==
    LeafEntries
    \cup {DirEntry(TRUE, l) : l \in SubListings}
    \cup {DirEntry(FALSE, <<>>)}

InitScan ==
    /\ argv3 \in {Undefined, <<"t","r","u","e">>}
    /\ doc = Malformed
    /\ InitConvIdle
    /\ files \in SeqUpTo(MaxFiles, EntryPool)
    /\ stack = <<>>
    /\ status = "init"
    /\ fatal = <<>>
    /\ visited = <<>>
    /\ errors = <<>>
    /\ written = <<>>
    /\ mkdirs = {}

Frame(path, listing) == [path |-> path, listing |-> listing, i |-> 1]

Top == stack[Len(stack)]
AtEntry == status = "running" /\ stack # <<>> /\ Top.i <= Len(Top.listing)
CurEntry == Top.listing[Top.i]
CurPath == Top.path \o <<Top.i>>

\* the for loop moves on to the next file of the innermost call
Advance == [stack EXCEPT ![Len(stack)].i = @ + 1]

\* an error leaves scanForDrumMapFiles: every awaiting call rethrows it, and
\* the top-level catch logs it and calls process.exit(1)
Throw(path) ==
    /\ status' = "exit1"
    /\ fatal' = path
    /\ stack' = <<>>

\* the body of a scanForDrumMapFiles call up to its for loop, on a directory
\* whose readdir gave listing: stat(outputDir), and mkdir on ENOENT
OpenDirectory(path, listing) ==
    \E outcome \in {"found", "ENOENT", "EACCES", "mkdirFails"} :
        IF outcome = "mkdirFails"
        THEN Throw(path) /\ UNCHANGED mkdirs
        ELSE /\ stack' = Append(stack, Frame(path, listing))
             /\ status' = "running"
             /\ mkdirs' = IF outcome = "ENOENT" THEN mkdirs \cup {path}
                           ELSE mkdirs
             /\ UNCHANGED fatal

\* await scanForDrumMapFiles(baseInputDir, baseOutputDir)
Start ==
    /\ status = "init"
    /\ OpenDirectory(<<>>, files)
    /\ UNCHANGED <<argv3, files, visited, errors, written>>
    /\ UNCHANGED convVars

\* await stat(filePath) throws
StatFails ==
    /\ AtEntry
    /\ CurEntry.type = "broken"
    /\ Throw(CurPath)
    /\ UNCHANGED <<argv3, files, visited, errors, written, mkdirs>>
    /\ UNCHANGED convVars

\* statResult.isDirectory(): the recursive call starts
EnterDirectory ==
    /\ AtEntry
    /\ CurEntry.type = "dir"
    /\ IF CurEntry.readable
       THEN OpenDirectory(CurPath, CurEntry.listing)
       ELSE Throw(CurPath) /\ UNCHANGED mkdirs
    /\ UNCHANGED <<argv3, files, visited, errors, written>>
    /\ UNCHANGED convVars

\* what the try block of a .drm file leaves: the text written, or the error
\* caught and logged
tryConvert(entry, a3) ==
    LET r == convertDRMFileToText(entry.content, a3) IN
    IF r.threw # "none" THEN [caught |-> r.threw, text |-> Undefined]
    ELSE IF ~entry.writable THEN [caught |-> "WriteError", text |-> Undefined]
    ELSE [caught |-> "none", text |-> r.text]

\* a try block without its catch
catchErrorRethrown(caught) == "rethrown"

\* where an error caught in a .drm file's try block goes: "logged" by
\* console.error
catchError(caught) == "logged"

\* path.extname(file) === '.drm'
ConvertFile ==
    /\ AtEntry
    /\ CurEntry.type = "file"
    /\ CurEntry.ext = <<".","d","r","m">>
    /\ LET t == tryConvert(CurEntry, argv3) IN
       /\ visited' = Append(visited, CurPath)
       /\ IF t.caught = "none"
          THEN /\ written' = Append(written, [path |-> CurPath, text |-> t.text])
               /\ stack' = Advance
               /\ UNCHANGED <<errors, status, fatal>>
          ELSE IF catchError(t.caught) = "logged"
          THEN /\ errors' = Append(errors, CurPath)
               /\ stack' = Advance
               /\ UNCHANGED <<written, status, fatal>>
          ELSE /\ Throw(CurPath)
               /\ UNCHANGED <<errors, written>>
    /\ UNCHANGED <<argv3, files, mkdirs>>
    /\ UNCHANGED convVars

\* a file of another extension is passed over
SkipFile ==
    /\ AtEntry
    /\ CurEntry.type = "file"
    /\ CurEntry.ext # <<".","d","r","m">>
    /\ stack' = Advance
    /\ UNCHANGED <<argv3, files, status, fatal, visited, errors, written, mkdirs>>
    /\ UNCHANGED convVars

\* the for loop of the innermost call ends: the call returns to its caller's
\* loop, or the run is over
Return ==
    /\ status = "running"
    /\ stack # <<>>
    /\ Top.i > Len(Top.listing)
    /\ IF Len(stack) = 1
       THEN stack' = <<>> /\ status' = "done"
       ELSE /\ stack' = [SubSeq(stack, 1, Len(stack) - 1)
                            EXCEPT ![Len(stack) - 1].i = @ + 1]
            /\ UNCHANGED status
    /\ UNCHANGED <<argv3, files, fatal, visited, errors, written, mkdirs>>
    /\ UNCHANGED convVars

NextScan ==
    \/ Start
    \/ StatFails
    \/ EnterDirectory
    \/ ConvertFile
    \/ SkipFile
    \/ Return

SpecScan == InitScan /\ [][NextScan]_vars

(***************************************************************************)
(* Properties.  The helpers below read the state and the returned text;    *)
(* they are written apart from the operators that model the code.          *)
(***************************************************************************)
Preferred == Truthy(usePreferredGrouping(argv3))

Converted == pc # "ready" /\ doc.parses

Marker == <<"#"," ","G","r","o","u","p","e","d"," ","o","r","d","e","r">>

NoLine(note) == <<"N","O"," ">> \o note

RECURSIVE SplitLines(_)
SplitLines(t) ==
    LET breaks == {i \in 1..Len(t) : t[i] = "\n"} IN
    IF breaks = {} THEN <<t>>
    ELSE LET p == SetMin(breaks)
         IN  <<SubSeq(t, 1, p - 1)>> \o SplitLines(SubSeq(t, p + 1, Len(t)))

NonEmptyLines(ls) == SelectSeq(ls, LAMBDA l : l # <<>>)

MarkerAt(ls) == SetMax({i \in 1..Len(ls) : ls[i] = Marker})

\* the lines of the returned text between the header line and the marker
FlatBlock(t) ==
    LET ls == SplitLines(t)
    IN  NonEmptyLines(SubSeq(ls, 2, MarkerAt(ls) - 1))

\* the lines of the returned text after the marker
GroupedBlock(t) ==
    LET ls == SplitLines(t)
    IN  NonEmptyLines(SubSeq(ls, MarkerAt(ls) + 1, Len(ls)))

\* a Map item with a Name and an INote that are both non-empty strings
ValidItem(m) ==
    /\ m.name \notin {Null, Undefined, <<>>}
    /\ m.note \notin {Null, Undefined, <<>>}

ValidItems == SelectSeq(doc.mapList, ValidItem)

ValidNotes == {ValidItems[i].note : i \in 1..Len(ValidItems)}

Occurrences(seq, v) == Cardinality({i \in 1..Len(seq) : seq[i] = v})

HasDigit(s) == \E i \in 1..Len(s) : s[i] \in Digits

\* the first maximal run of digits of s, <<>> when s has no digit
RECURSIVE DigitsFrom(_, _)
DigitsFrom(s, i) ==
    IF i > Len(s) \/ s[i] \notin Digits THEN <<>>
    ELSE <<s[i]>> \o DigitsFrom(s, i + 1)

RECURSIVE FirstDigitRun(_, _)
FirstDigitRun(s, i) ==
    IF i > Len(s) THEN <<>>
    ELSE IF s[i] \in Digits THEN DigitsFrom(s, i)
    ELSE FirstDigitRun(s, i + 1)

\* the token of PREFERRED_ORDERS at 0-based index r
TokenAt(r) == PREFERRED_ORDERS[r + 1]

\* the number of lines the groups before group g emit
RECURSIVE LinesBefore(_, _)
LinesBefore(gs, g) ==
    IF g <= 1 THEN 0 ELSE LinesBefore(gs, g - 1) + Len(gs[g - 1].notes)

\* C1: with preferred grouping, the lines are emitted group by group in the
\* order of the sorted groups, every entry with a tag is in the group of its
\* tag with the rank of that tag, no group of rank >= 0 comes before a group
\* of rank -1, and among the groups of rank >= 0 no group comes before a
\* group of a smaller rank.
C1_RankMonotonic ==
    (pc = "returned" /\ Preferred) =>
        /\ Len(orderItems) = LinesBefore(groups, Len(groups) + 1)
        /\ \A g \in 1..Len(groups) : \A n \in 1..Len(groups[g].notes) :
               orderItems[LinesBefore(groups, g) + n]
                   = NoLine(groups[g].notes[n])
        /\ \A e \in 1..Len(notesAndNames) :
               LET key == matchBracket(notesAndNames[e].name) IN
               key # Null =>
                   \E g \in 1..Len(groups) :
                       /\ groups[g].key = key
                       /\ groups[g].order = preferredOrder(key)
                       /\ \E n \in 1..Len(groups[g].notes) :
                              groups[g].notes[n] = notesAndNames[e].note
        /\ \A i, j \in 1..Len(groups) :
               i < j =>
                   /\ groups[j].order = -1 => groups[i].order = -1
                   /\ groups[i].order >= -1
                   /\ (groups[i].order >= 0 /\ groups[j].order >= 0)
                        => groups[i].order <= groups[j].order

\* C1's case: an unranked group and two ranked groups of different ranks,
\* first seen in the opposite of the emitted order.
C1_Witness ==
    /\ pc = "returned" /\ Preferred
    /\ Len(notesAndNames) = 3
    /\ Len(groups) = 3
    /\ groups[1].order = -1
    /\ 0 <= groups[2].order /\ groups[2].order < groups[3].order
    /\ groups[3].notes = <<notesAndNames[1].note>>
    /\ groups[1].notes = <<notesAndNames[3].note>>

\* every valid entry's note is the value of exactly one Order item
EveryNoteOnce ==
    \A i \in 1..Len(ValidItems) :
        Occurrences(doc.orderList, ValidItems[i].note) = 1

DistinctNotes ==
    \A i, j \in 1..Len(ValidItems) :
        i # j => ValidItems[i].note # ValidItems[j].note

\* C2 as stated: in explicit mode, if every entry's note appears exactly
\* once in the Order list the conversion returns a grouped block of as many
\* lines as there are entries, and if the number of filtered lines differs
\* from the number of entries the conversion throws and returns no text.
C2_AsStated ==
    (Converted /\ ~Preferred) =>
        /\ EveryNoteOnce =>
               /\ pc = "returned"
               /\ Len(GroupedBlock(text)) = Len(ValidItems)
        /\ Len(orderItems) # Len(notesAndNames) =>
               pc = "threw" /\ text = Undefined

\* C2 amended: the same, for entries whose notes are pairwise distinct.
C2_Completeness ==
    (Converted /\ ~Preferred) =>
        /\ (EveryNoteOnce /\ DistinctNotes) =>
               /\ pc = "returned"
               /\ Len(orderItems) = Len(ValidItems)
               /\ Len(GroupedBlock(text)) = Len(ValidItems)
        /\ Len(orderItems) # Len(notesAndNames) =>
               pc = "threw" /\ text = Undefined

\* C2's case: two entries of different notes, each once in an Order list
\* that also holds a value that is no entry's note.
C2_Witness ==
    /\ pc = "returned" /\ ~Preferred
    /\ Len(ValidItems) = 2
    /\ EveryNoteOnce /\ DistinctNotes
    /\ Len(doc.orderList) = 3
    /\ Len(GroupedBlock(text)) = 2

\* the Order values that are the note of some valid entry, in source order
KnownOrder == SelectSeq(doc.orderList, LAMBDA v : v \in ValidNotes)

\* C3: in explicit mode the order lines are the Order values that are some
\* entry's note, in source order with duplicates kept, each as NO <value>,
\* and a returned text's grouped block is exactly those lines.
C3_ExplicitReplay ==
    (Converted /\ ~Preferred) =>
        /\ orderItems = [k \in 1..Len(KnownOrder) |-> NoLine(KnownOrder[k])]
        /\ pc = "returned" =>
               GroupedBlock(text)
                   = [k \in 1..Len(KnownOrder) |-> NoLine(KnownOrder[k])]

\* C3's case: an Order list with an unknown value, and a known value twice
\* and out of ascending order, over entries noted 1 and 2.
C3_Witness ==
    /\ pc = "returned" /\ ~Preferred
    /\ doc.orderList = <<<<"2">>, <<"9">>, <<"2">>>>
    /\ ValidNotes = {<<"1">>, <<"2">>}
    /\ GroupedBlock(text) = <<<<"N","O"," ","2">>, <<"N","O"," ","2">>>>

IsWorkedExample ==
    /\ pc = "returned" /\ Preferred
    /\ doc.mapList = WorkedExample.mapList

\* C4 as stated: the worked example's grouped block is NO 3, NO 2, NO 1.
C4_AsStated ==
    IsWorkedExample => GroupedBlock(text) = <<<<"N","O"," ","3">>, <<"N","O"," ","2">>, <<"N","O"," ","1">>>>

\* C4 amended: the worked example's grouped block is NO 3 (rank -1), then
\* NO 1 (kick), then NO 2 (hat).
C4_WorkedExample ==
    IsWorkedExample =>
        /\ orderItems = <<<<"N","O"," ","3">>, <<"N","O"," ","1">>, <<"N","O"," ","2">>>>
        /\ GroupedBlock(text) = <<<<"N","O"," ","3">>, <<"N","O"," ","1">>, <<"N","O"," ","2">>>>

\* C4's case: the worked example has been converted with preferred grouping.
C4_Witness ==
    /\ IsWorkedExample
    /\ [g \in 1..Len(groups) |-> groups[g].key]
           = <<<<"[","F","o","o","]">>, <<"[","K","i","c","k","]">>, <<"[","H","a","t","]">>>>

\* C5: a group whose rank is the index of a token with a numeric suffix has
\* a key that contains the token's name without the digits and whose first
\* run of digits is the token's; so a key without digits has the rank of no
\* such token.
C5_NumericTieBreak ==
    (pc = "returned" /\ Preferred) =>
        \A g \in 1..Len(groups) :
            (groups[g].order >= 0 /\ HasDigit(TokenAt(groups[g].order))) =>
                LET token == TokenAt(groups[g].order) IN
                /\ includes(toLowerCase(groups[g].key),
                            SelectSeq(token, LAMBDA c : c \notin Digits))
                /\ HasDigit(groups[g].key)
                /\ FirstDigitRun(groups[g].key, 1) = FirstDigitRun(token, 1)

\* C5's case: a key with the digits 2 ranked at the token ride 2, past the
\* token ride 1 of the same name.
C5_Witness ==
    /\ pc = "returned" /\ Preferred
    /\ \E g \in 1..Len(groups) :
           /\ groups[g].key = <<"[","R","i","d","e"," ","2","]">>
           /\ TokenAt(groups[g].order) = <<"r","i","d","e"," ","2">>

\* the entry of the directory tree at a path
RECURSIVE EntryIn(_, _)
EntryIn(listing, path) ==
    IF Len(path) = 1 THEN listing[path[1]]
    ELSE EntryIn(listing[path[1]].listing, Tail(path))

\* the paths of the .drm files of a listing, in the order of the traversal
RECURSIVE DrmPaths(_, _, _)
DrmPaths(listing, prefix, i) ==
    IF i > Len(listing) THEN <<>>
    ELSE LET e == listing[i]
             here == IF e.type = "file" /\ e.ext = <<".","d","r","m">>
                         THEN <<prefix \o <<i>>>>
                     ELSE IF e.type = "dir" /\ e.readable
                         THEN DrmPaths(e.listing, prefix \o <<i>>, 1)
                     ELSE <<>>
         IN  here \o DrmPaths(listing, prefix, i + 1)

AllDrmPaths == DrmPaths(files, <<>>, 1)

\* path p is met before path f in the traversal
PathBefore(p, f) ==
    \E i \in 1..Len(p) :
        /\ i <= Len(f)
        /\ p[i] < f[i]
        /\ \A k \in 1..(i - 1) : p[k] = f[k]

\* the conversion of a .drm file fails: its content does not parse, its
\* Order list does not match its entries in explicit mode, or its output
\* cannot be written
FailsToConvert(e) ==
    LET valid == SelectSeq(e.content.mapList, ValidItem)
        notes == {valid[i].note : i \in 1..Len(valid)}
        known == SelectSeq(e.content.orderList, LAMBDA v : v \in notes)
    IN  \/ ~e.content.parses
        \/ ~Preferred /\ Len(known) # Len(valid)
        \/ ~e.writable

InSeq(seq, v) == \E i \in 1..Len(seq) : seq[i] = v

WrittenPaths == [i \in 1..Len(written) |-> written[i].path]

\* C6: the .drm files are converted in the order of the traversal and none
\* is passed over; a file whose conversion fails is logged, a file whose
\* conversion succeeds is written; no failure of a conversion ends the run:
\* a run that ends by an error ended at a directory or at a name whose stat
\* failed, after converting every .drm file met before it, and a run that
\* ends normally has converted every .drm file of the tree.
C6_FailureIsolation ==
    /\ Len(visited) <= Len(AllDrmPaths)
    /\ visited = SubSeq(AllDrmPaths, 1, Len(visited))
    /\ \A k \in 1..Len(visited) :
           LET e == EntryIn(files, visited[k]) IN
           /\ FailsToConvert(e) <=> InSeq(errors, visited[k])
           /\ ~FailsToConvert(e) <=> InSeq(WrittenPaths, visited[k])
    /\ Len(errors) + Len(written) = Len(visited)
    /\ status = "done" => visited = AllDrmPaths
    /\ status = "exit1" =>
           /\ fatal = <<>> \/ EntryIn(files, fatal).type # "file"
           /\ visited = SelectSeq(AllDrmPaths, LAMBDA p : PathBefore(p, fatal))

\* C6's case: a run that ended normally after two conversions failed, with
\* a file of a subdirectory converted and written after a failure.
C6_Witness ==
    /\ status = "done"
    /\ Len(errors) >= 2
    /\ \E i, j \in 1..Len(visited) :
           /\ i < j
           /\ InSeq(errors, visited[i])
           /\ Len(visited[j]) = 2
           /\ InSeq(WrittenPaths, visited[j])

\* C7: the entries that reach ordering are exactly the Map items whose Name
\* and INote are both present and non-empty, in source order; a returned
\* text's flat block holds one line per such item and no other line, and
\* every line of its grouped block names the note of such an item.
C7_EmptyFieldsFiltered ==
    Converted =>
        /\ notesAndNames = [i \in 1..Len(ValidItems) |->
               [note |-> ValidItems[i].note, name |-> ValidItems[i].name]]
        /\ \A i \in 1..Len(notesAndNames) :
               notesAndNames[i].note # <<>> /\ notesAndNames[i].name # <<>>
        /\ pc = "returned" =>
               /\ FlatBlock(text) = [i \in 1..Len(ValidItems) |->
                      ValidItems[i].note \o <<" ">> \o ValidItems[i].name]
               /\ \A k \in 1..Len(GroupedBlock(text)) :
                      \E v \in ValidNotes : GroupedBlock(text)[k] = NoLine(v)

\* C7's case: a document with an item without name whose note is in the
\* Order list, an item without note, and a valid item, converted.
C7_Witness ==
    /\ pc = "returned" /\ ~Preferred
    /\ Len(doc.mapList) = 3
    /\ InSeq(doc.mapList, Item(<<"2">>, <<>>))
    /\ InSeq(doc.mapList, Item(Null, <<"S","n","a","r","e">>))
    /\ InSeq(doc.orderList, <<"2">>)
    /\ Len(notesAndNames) = 1
    /\ GroupedBlock(text) = <<<<"N","O"," ","1">>>>

\* the substring from the first [ of a name to the next ] after it
NextBracket(name) ==
    LET opens == {i \in 1..Len(name) : name[i] = "["} IN
    IF opens = {} THEN Null
    ELSE LET i == SetMin(opens)
             closes == {j \in (i + 1)..Len(name) : name[j] = "]"}
         IN  IF closes = {} THEN Null ELSE SubSeq(name, i, SetMin(closes))

\* C8 as stated: every entry whose name has a [ and a ] after it is in the
\* group whose key runs from the first [ to the next ], and the grouped
\* block has no line for the other entries.
C8_AsStated ==
    (pc = "returned" /\ Preferred) =>
        /\ \A e \in 1..Len(notesAndNames) :
               LET key == NextBracket(notesAndNames[e].name) IN
               key # Null =>
                   \E g \in 1..Len(groups) :
                       /\ groups[g].key = key
                       /\ InSeq(groups[g].notes, notesAndNames[e].note)
        /\ Len(orderItems) =
               Cardinality({e \in 1..Len(notesAndNames) :
                               NextBracket(notesAndNames[e].name) # Null})

\* C9 as stated: a group whose key is a token with a numeric suffix in
\* brackets has the index of that token as its rank.
C9_AsStated ==
    (pc = "returned" /\ Preferred) =>
        \A g \in 1..Len(groups) : \A i \in 1..Len(PREFERRED_ORDERS) :
            (/\ HasDigit(PREFERRED_ORDERS[i])
             /\ toLowerCase(groups[g].key)
                    = <<"[">> \o PREFERRED_ORDERS[i] \o <<"]">>)
                => groups[g].order = i - 1

\* C10 as stated: in explicit mode a returned text's grouped block holds
\* every entry's note as often as the entries do, and no other line.
C10_AsStated ==
    (pc = "returned" /\ ~Preferred) =>
        /\ \A v \in ValidNotes :
               Occurrences(GroupedBlock(text), NoLine(v))
                   = Occurrences([i \in 1..Len(notesAndNames) |->
                                     notesAndNames[i].note], v)
        /\ \A k \in 1..Len(GroupedBlock(text)) :
               \E v \in ValidNotes : GroupedBlock(text)[k] = NoLine(v)

=============================================================================
